---- MODULE Spec2Model ----
(***************************************************************************)
(* Polars DataFrame -> dense row-major f32 matrix -> Booster::predict.     *)
(* A model of src/src/polars_ext.rs: the two entry points of               *)
(* BoosterPolarsExt, dataframe_to_dense and extract_f32_value.             *)
(*                                                                         *)
(* One behaviour is one invocation of an entry point on one DataFrame.     *)
(* The code is synchronous and single-threaded; pc is the position of the  *)
(* invocation: "idle" (not yet called), "dense" (dataframe_to_dense        *)
(* entered), "loop" (inside the nested loops, before the next cell),       *)
(* "predict" (conversion returned Ok, before self.predict), "done"         *)
(* (the entry point returned), "panic" (the thread unwound).               *)
(*                                                                         *)
(* f32 values are modelled by the integer they denote; the sample cell     *)
(* values are integer-valued, so narrowing f64 -> f32 and converting       *)
(* integers -> f32 is rounding to 24 significant bits (RoundToF32).        *)
(***************************************************************************)
EXTENDS Integers, Sequences, FiniteSets, TLC

VARIABLES
    df,            \* the caller's DataFrame (argument df)
    variant,       \* "none" | "all" (predict_dataframe) | "named" (..._with_columns)
    columns,       \* argument columns of predict_dataframe_with_columns
    option_mask,   \* argument option_mask
    training,      \* argument training
    frame,         \* the DataFrame dataframe_to_dense was entered with
    num_rows,      \* local num_rows of dataframe_to_dense
    num_features,  \* local num_features of dataframe_to_dense
    data,          \* local data: Vec<f32> of dataframe_to_dense
    row_idx,       \* outer loop variable, 0-based
    col_pos,       \* position of the inner iterator in get_columns(), 1-based
    pc,
    result,        \* what the entry point returned
    engine_calls,  \* every call of self.predict made, in order, with its arguments
    visited        \* every (row, column position) handed to extract_f32_value, in order

vars == <<df, variant, columns, option_mask, training, frame, num_rows,
          num_features, data, row_idx, col_pos, pc, result, engine_calls, visited>>

-----------------------------------------------------------------------------
(* Bounds of the model *)

MaxRows == 2
MaxCols == 2
MaxNames == 2

-----------------------------------------------------------------------------
(* predict_option constants of lib.rs *)

OUTPUT_MARGIN == 1
PRED_CONTRIBS == 4

-----------------------------------------------------------------------------
(* Values *)

\* Option<T> as returned by ChunkedArray::get
None == [some |-> FALSE, val |-> 0]
Some(v) == [some |-> TRUE, val |-> v]

\* f32 has a 24-bit significand
F32_MANTISSA_DIGITS == 24

RECURSIVE Pow2(_)
Pow2(n) == IF n = 0 THEN 1 ELSE 2 * Pow2(n - 1)

Abs(n) == IF n < 0 THEN 0 - n ELSE n

\* the unit in the last place of the f32 nearest to magnitude m >= 2^24
RECURSIVE UlpOf(_, _)
UlpOf(m, u) == IF m < Pow2(F32_MANTISSA_DIGITS) * u THEN u ELSE UlpOf(m, 2 * u)

\* `as f32` on an integer-valued number: round to nearest, ties to even
RoundToF32(n) ==
    LET m == Abs(n)
        u == UlpOf(m, 1)
        q == m \div u
        r == m % u
        up == (2 * r > u) \/ (2 * r = u /\ q % 2 = 1)
        mag == (IF up THEN q + 1 ELSE q) * u
    IN  IF n < 0 THEN 0 - mag ELSE mag

-----------------------------------------------------------------------------
(* Columns and tables *)

\* the DataType variants extract_f32_value has an arm for
SupportedDTypes ==
    {"Float32", "Float64", "Int8", "Int16", "Int32", "Int64",
     "UInt8", "UInt16", "UInt32", "UInt64", "Boolean"}

\* two of the DataType variants that fall to the last arm
OtherDTypes == {"String", "Date"}

DTypes == SupportedDTypes \cup OtherDTypes

\* dtypes of the columns of tables with several columns
SampleDTypes == {"Float64", "Boolean", "String"}

\* column names in the table's natural order
AllNames == <<"A", "B", "C">>

\* names a caller may ask for; at least one is absent from every table of
\* fewer than Len(AllNames) columns
RequestNames == {AllNames[i] : i \in 1..Len(AllNames)}

\* a number that identifies the cell (row r, natural column c)
CellId(c, r) == (MaxRows + 1) * c + r

\* The present value of the sample cell of dtype dt at (r, c): in the range of
\* dt, different for different cells of one dtype (Boolean apart), and for the
\* wide types beyond 2^24, where f32 is no longer exact.
SampleValue(dt, c, r) ==
    LET k == CellId(c, r)
        big == Pow2(F32_MANTISSA_DIGITS)
    IN  CASE dt = "Float32" -> 100 + k
          [] dt = "Float64" -> big + 4 * k + 1
          [] dt = "Int8"    -> 0 - (k + 1)
          [] dt = "Int16"   -> 0 - (1000 + k)
          [] dt = "Int32"   -> big + 4 * k + 3
          [] dt = "Int64"   -> 0 - (big + 4 * k + 1)
          [] dt = "UInt8"   -> 200 + k
          [] dt = "UInt16"  -> 60000 + k
          [] dt = "UInt32"  -> big + 4 * k + 2
          [] dt = "UInt64"  -> 2 * big + 8 * k + 2
          [] dt = "Boolean" -> (k % 2 = 0)
          [] OTHER          -> k

\* A Series of h values with at most one null, at row null_row (-1: none)
SampleSeries(dt, c, h, null_row) ==
    [name   |-> AllNames[c],
     dtype  |-> dt,
     values |-> [i \in 1..h |->
                   IF i - 1 = null_row THEN None ELSE Some(SampleValue(dt, c, i - 1))]]

NullRows(h) == (0 - 1)..(h - 1)

TableDTypes(k) == IF k = 1 THEN DTypes ELSE SampleDTypes

\* The well-formed DataFrames of k columns and height h: every column has
\* length h (DataFrame::new checks it) and the names are distinct.
Frames(h, k) ==
    { [height  |-> h,
       columns |-> [c \in 1..k |-> SampleSeries(dts[c], c, h, nulls[c])]] :
         dts \in [1..k -> TableDTypes(k)], nulls \in [1..k -> NullRows(h)] }

SampleFrames == UNION { Frames(h, k) : h \in 0..MaxRows, k \in 0..MaxCols }

RECURSIVE SeqsUpTo(_, _)
SeqsUpTo(S, n) ==
    IF n = 0 THEN {<<>>}
    ELSE LET shorter == SeqsUpTo(S, n - 1)
         IN  shorter \cup {Append(s, x) : s \in {t \in shorter : Len(t) = n - 1}, x \in S}

SampleColumnLists == SeqsUpTo(RequestNames, MaxNames)

\* (option_mask, training) pairs a caller passes
SampleOptions == {<<0, FALSE>>, <<OUTPUT_MARGIN + PRED_CONTRIBS, TRUE>>}

EmptyFrame == [height |-> 0, columns |-> <<>>]

\* DataFrame::get_columns
GetColumns(f) == f.columns

\* DataFrame::height
Height(f) == f.height

Width_AsHeight(f) == f.height

\* DataFrame::width
Width(f) == Len(f.columns)

-----------------------------------------------------------------------------
(* Results and errors *)

\* XGBoostError { description }: the format string's text and what is
\* interpolated into it (an index, or the Display of a type or of an error)
Description(text, idx, shown) == [text |-> text, idx |-> idx, shown |-> shown]

Ok(v) == [ok |-> TRUE, value |-> v, description |-> Description("", <<>>, <<>>)]
Err(d) == [ok |-> FALSE, value |-> <<>>, description |-> d]

NoResult == Err(Description("<not returned>", <<>>, <<>>))

EmptyInput == Description("DataFrame has zero rows or columns", <<>>, <<>>)

NullValue(idx) == Description("Null value at index ", <<idx>>, <<>>)

UnsupportedType_Unnamed(dt) ==
    Description("Unsupported data type for conversion to f32: ", <<>>, <<>>)

UnsupportedType(dt) ==
    Description("Unsupported data type for conversion to f32: ", <<>>, <<dt>>)

ColumnSelectionError(e) == Description("Failed to select columns: ", <<>>, e)

-----------------------------------------------------------------------------
(* DataFrame::select, as polars defines it: an error for a name listed twice *)
(* or absent from the frame, else the named columns in the order asked for,  *)
(* with the height of the frame.                                             *)

HasColumn(f, name) == \E c \in 1..Len(f.columns) : f.columns[c].name = name

ColumnIndex(f, name) == CHOOSE c \in 1..Len(f.columns) : f.columns[c].name = name

FirstOf(S) == CHOOSE k \in S : \A j \in S : k <= j

Duplicated(names) ==
    {k \in 1..Len(names) : \E j \in 1..(k - 1) : names[j] = names[k]}

Missing(f, names) == {k \in 1..Len(names) : ~HasColumn(f, names[k])}

\* the columns of f that names lists, in the order of f
Select_NaturalOrder(f, names) ==
    IF Duplicated(names) # {} THEN Err(<<"duplicate", names[FirstOf(Duplicated(names))]>>)
    ELSE IF Missing(f, names) # {}
         THEN Err(<<"not found", names[FirstOf(Missing(f, names))]>>)
    ELSE Ok([height  |-> f.height,
             columns |-> SelectSeq(f.columns,
                                   LAMBDA col : \E k \in 1..Len(names) : names[k] = col.name)])

\* the columns of f that names lists, the absent ones left out
Select_SkipMissing(f, names) ==
    IF Duplicated(names) # {} THEN Err(<<"duplicate", names[FirstOf(Duplicated(names))]>>)
    ELSE LET found == SelectSeq(names, LAMBDA n : HasColumn(f, n))
         IN  Ok([height  |-> f.height,
                 columns |-> [k \in 1..Len(found) |-> f.columns[ColumnIndex(f, found[k])]]])

Select(f, names) ==
    IF Duplicated(names) # {} THEN Err(<<"duplicate", names[FirstOf(Duplicated(names))]>>)
    ELSE IF Missing(f, names) # {}
         THEN Err(<<"not found", names[FirstOf(Missing(f, names))]>>)
    ELSE Ok([height  |-> f.height,
             columns |-> [k \in 1..Len(names) |-> f.columns[ColumnIndex(f, names[k])]]])

-----------------------------------------------------------------------------
(* extract_f32_value *)

\* a null read as the default value of the type
Get_OrDefault(series, idx) ==
    LET v == series.values[idx + 1]
    IN  IF v.some THEN v ELSE Some(IF series.dtype = "Boolean" THEN FALSE ELSE 0)

\* ChunkedArray::get(idx) for idx within the array
Get(series, idx) == series.values[idx + 1]

\* .ok_or_else(|| XGBoostError { "Null value at index {idx}" })
OkOrElseNull(v, idx) == IF v.some THEN Ok(v.val) ELSE Err(NullValue(idx))

\* Ok(x? as f32): the `?` returns the error, a present value is converted
AsF32(got) == IF got.ok THEN Ok(RoundToF32(got.value)) ELSE got

\* Ok(if x? { 1.0 } else { 0.0 })
BoolAsF32(got) == IF got.ok THEN Ok(IF got.value THEN 1 ELSE 0) ELSE got

extract_f32_value(series, idx) ==
    LET dt == series.dtype
        got == OkOrElseNull(Get(series, idx), idx)
    IN  CASE dt = "Float32" -> got
          [] dt = "Float64" -> AsF32(got)
          [] dt = "Int8"    -> AsF32(got)
          [] dt = "Int16"   -> AsF32(got)
          [] dt = "Int32"   -> AsF32(got)
          [] dt = "Int64"   -> AsF32(got)
          [] dt = "UInt8"   -> AsF32(got)
          [] dt = "UInt16"  -> AsF32(got)
          [] dt = "UInt32"  -> AsF32(got)
          [] dt = "UInt64"  -> AsF32(got)
          [] dt = "Boolean" -> BoolAsF32(got)
          [] OTHER          -> Err(UnsupportedType(dt))

-----------------------------------------------------------------------------
(* dataframe_to_dense *)

IsEmpty_Both(rows, cols) == rows = 0 /\ cols = 0

\* num_rows == 0 || num_features == 0
IsEmpty(rows, cols) == rows = 0 \/ cols = 0

\* where the nested loops start: at their first cell, or past them when
\* one of the two ranges is empty
LoopStart(rows, cols) == IF rows = 0 \/ cols = 0 THEN "predict" ELSE "loop"

Push_Front(buf, v) == <<v>> \o buf

\* data.push(value)
Push(buf, v) == Append(buf, v)

\* column-outer, row-inner
LoopAdvance_ColumnOuter(r, c, rows, cols) ==
    IF r + 1 < rows THEN [row |-> r + 1, col |-> c, pc |-> "loop"]
    ELSE [row |-> 0, col |-> c + 1, pc |-> IF c < cols THEN "loop" ELSE "predict"]

\* for row_idx in 0..num_rows { for col in df.get_columns() { .. } }: the
\* iteration after (r, c), or the end of the loops
LoopAdvance(r, c, rows, cols) ==
    IF c < cols THEN [row |-> r, col |-> c + 1, pc |-> "loop"]
    ELSE [row |-> r + 1, col |-> 1, pc |-> IF r + 1 < rows THEN "loop" ELSE "predict"]

-----------------------------------------------------------------------------
(* Booster::predict, the prediction engine: opaque here.  It returns a      *)
(* score vector or an error of its own.                                     *)

EngineError == Description("engine: ", <<>>, <<"native error">>)

EngineOutcomes(rows) == {Ok([i \in 1..rows |-> 900 + i]), Err(EngineError)}

EngineCall_DefaultOptions(buf, rows, cols, mask, tr) ==
    [data |-> buf, num_rows |-> rows, num_features |-> cols,
     option_mask |-> 0, training |-> FALSE]

\* the arguments of self.predict(&data, num_rows, num_features, option_mask, training)
EngineCall(buf, rows, cols, mask, tr) ==
    [data |-> buf, num_rows |-> rows, num_features |-> cols,
     option_mask |-> mask, training |-> tr]

-----------------------------------------------------------------------------
(* The state machine *)

InitOn(tables) ==
    /\ df \in tables
    /\ variant = "none"
    /\ columns = <<>>
    /\ option_mask = 0
    /\ training = FALSE
    /\ frame = EmptyFrame
    /\ num_rows = 0
    /\ num_features = 0
    /\ data = <<>>
    /\ row_idx = 0
    /\ col_pos = 1
    /\ pc = "idle"
    /\ result = NoResult
    /\ engine_calls = <<>>
    /\ visited = <<>>

Init == InitOn(SampleFrames)

\* predict_dataframe, up to the call of dataframe_to_dense(df)
PredictDataframe(mask, tr) ==
    /\ pc = "idle"
    /\ variant' = "all"
    /\ option_mask' = mask
    /\ training' = tr
    /\ frame' = df
    /\ pc' = "dense"
    /\ UNCHANGED <<df, columns, num_rows, num_features, data, row_idx, col_pos,
                   result, engine_calls, visited>>

\* predict_dataframe_with_columns, up to the call of dataframe_to_dense(&selected)
\* or the early return of the `?` on df.select
PredictDataframeWithColumns(cols, mask, tr) ==
    /\ pc = "idle"
    /\ variant' = "named"
    /\ columns' = cols
    /\ option_mask' = mask
    /\ training' = tr
    /\ LET selected == Select(df, cols)
       IN  IF selected.ok
           THEN /\ frame' = selected.value
                /\ pc' = "dense"
                /\ result' = result
           ELSE /\ frame' = frame
                /\ pc' = "done"
                /\ result' = Err(ColumnSelectionError(selected.description))
    /\ UNCHANGED <<df, num_rows, num_features, data, row_idx, col_pos,
                   engine_calls, visited>>

\* dataframe_to_dense, from entry to the first iteration of the loops
DataframeToDenseEnter ==
    /\ pc = "dense"
    /\ num_rows' = Height(frame)
    /\ num_features' = Width(frame)
    /\ IF IsEmpty(Height(frame), Width(frame))
       THEN /\ result' = Err(EmptyInput)
            /\ pc' = "done"
       ELSE /\ result' = result
            /\ pc' = LoopStart(Height(frame), Len(GetColumns(frame)))
    /\ data' = <<>>
    /\ row_idx' = 0
    /\ col_pos' = 1
    /\ UNCHANGED <<df, variant, columns, option_mask, training, frame,
                   engine_calls, visited>>

\* extract_f32_value reads a cell only in the arms of the supported dtypes
ReadsCell(series) == series.dtype \in SupportedDTypes

\* one iteration of the inner loop of dataframe_to_dense, on a cell within
\* its column; after the last one the function returns
\* Ok((data, num_rows, num_features))
DataframeToDenseCell ==
    /\ pc = "loop"
    /\ LET series == GetColumns(frame)[col_pos]
           value == extract_f32_value(series, row_idx)
           next == LoopAdvance(row_idx, col_pos, num_rows, Len(GetColumns(frame)))
       IN  /\ ReadsCell(series) => row_idx < Len(series.values)
           /\ visited' = Append(visited, <<row_idx, col_pos>>)
           /\ IF value.ok
              THEN /\ data' = Push(data, value.value)
                   /\ result' = result
                   /\ row_idx' = next.row
                   /\ col_pos' = next.col
                   /\ pc' = next.pc
              ELSE /\ data' = <<>>
                   /\ result' = Err(value.description)
                   /\ pc' = "done"
                   /\ UNCHANGED <<row_idx, col_pos>>
    /\ UNCHANGED <<df, variant, columns, option_mask, training, frame, num_rows,
                   num_features, engine_calls>>

\* self.predict(&data, num_rows, num_features, option_mask, training), whose
\* result the entry point returns
BoosterPredict ==
    /\ pc = "predict"
    /\ \E out \in EngineOutcomes(num_rows) :
          /\ engine_calls' =
                Append(engine_calls,
                       [args |-> EngineCall(data, num_rows, num_features,
                                            option_mask, training),
                        outcome |-> out])
          /\ result' = out
    /\ pc' = "done"
    /\ UNCHANGED <<df, variant, columns, option_mask, training, frame, num_rows,
                   num_features, data, row_idx, col_pos, visited>>

Next ==
    \/ \E o \in SampleOptions : PredictDataframe(o[1], o[2])
    \/ \E cols \in SampleColumnLists, o \in SampleOptions :
          PredictDataframeWithColumns(cols, o[1], o[2])
    \/ DataframeToDenseEnter
    \/ DataframeToDenseCell
    \/ BoosterPredict

Spec == Init /\ [][Next]_vars

-----------------------------------------------------------------------------
(* Frames built without DataFrame::new's length check (new_no_checks): a    *)
(* column may be shorter or longer than the frame's height.                 *)

RaggedFrames ==
    { [f EXCEPT !.columns[c] = SampleSeries(f.columns[c].dtype, c, len, 0 - 1)] :
        <<f, c, len>> \in
          { t \in SampleFrames \X (1..MaxCols) \X (0..MaxRows) :
              /\ t[2] <= Len(t[1].columns)
              /\ t[3] # t[1].height } }

\* all columns of f report the length f reports as its height
EqualLengths(f) == \A c \in 1..Len(f.columns) : Len(f.columns[c].values) = f.height

\* extract_f32_value on a row index past the end of the column:
\* ChunkedArray::get either panics on its bounds assertion or, in the
\* versions of polars without it, reports no value
ChunkedArrayGetOutOfBounds ==
    /\ pc = "loop"
    /\ LET series == GetColumns(frame)[col_pos]
       IN  /\ ReadsCell(series)
           /\ row_idx >= Len(series.values)
    /\ visited' = Append(visited, <<row_idx, col_pos>>)
    /\ data' = <<>>
    /\ \/ /\ pc' = "panic"
          /\ result' = result
       \/ /\ pc' = "done"
          /\ result' = Err(NullValue(row_idx))
    /\ UNCHANGED <<df, variant, columns, option_mask, training, frame, num_rows,
                   num_features, row_idx, col_pos, engine_calls>>

InitUnchecked == InitOn(SampleFrames \cup RaggedFrames)

NextUnchecked == Next \/ ChunkedArrayGetOutOfBounds

SpecUnchecked == InitUnchecked /\ [][NextUnchecked]_vars

-----------------------------------------------------------------------------
(* What the claims speak of, stated on the caller's arguments *)

\* the selection named by the call exists
SelectionOk ==
    \/ variant = "all"
    \/ /\ variant = "named"
       /\ \A k \in 1..Len(columns) : HasColumn(df, columns[k])
       /\ \A j, k \in 1..Len(columns) : columns[j] = columns[k] => j = k

NumSelected == IF variant = "all" THEN Len(df.columns) ELSE Len(columns)

\* the k-th selected column
SelectedColumn(k) ==
    IF variant = "all" THEN df.columns[k]
    ELSE df.columns[CHOOSE c \in 1..Len(df.columns) : df.columns[c].name = columns[k]]

SelectedCells == (0..(df.height - 1)) \X (1..NumSelected)

IsNullCell(cell) == ~SelectedColumn(cell[2]).values[cell[1] + 1].some

IsUnsupportedColumn(k) == SelectedColumn(k).dtype \notin SupportedDTypes

\* the f32 the cell is coerced to (for a present cell of a supported dtype)
CoercedCell(cell) == extract_f32_value(SelectedColumn(cell[2]), cell[1]).value

\* the cells extract_f32_value fails on
FailingCells ==
    {cell \in SelectedCells : IsUnsupportedColumn(cell[2]) \/ IsNullCell(cell)}

\* row-outer, column-inner order
Before(a, b) == a[1] < b[1] \/ (a[1] = b[1] /\ a[2] <= b[2])

FirstCell(S) == CHOOSE a \in S : \A b \in S : Before(a, b)

\* the i-th cell (from 1) in row-outer, column-inner order
RowMajorCell(i) == <<(i - 1) \div NumSelected, ((i - 1) % NumSelected) + 1>>

\* the position (from 1) of a cell in that order
RowMajorIndex(cell) == cell[1] * NumSelected + cell[2]

\* dataframe_to_dense returned Ok
Converted == pc = "predict" \/ engine_calls # <<>>

Returned == pc = "done"

-----------------------------------------------------------------------------
(* C1 - shape *)

\* C1: whenever the conversion succeeds, the buffer's length is rows * cols,
\* rows is the table's height and cols is the number of selected columns.
C1_Shape ==
    Converted =>
        /\ Len(data) = num_rows * num_features
        /\ num_rows = df.height
        /\ num_features = NumSelected

C1_Witness ==
    /\ Converted
    /\ variant = "named"
    /\ Len(columns) = 1
    /\ Len(df.columns) = 2
    /\ df.height = 2

-----------------------------------------------------------------------------
(* C2 - row-major layout of the full-table conversion *)

\* C2: after a successful full-table conversion, for every row r and column
\* position c the buffer holds at offset r * cols + c the coerced value of
\* the table's c-th column at row r.
C2_RowMajor ==
    (variant = "all" /\ Converted) =>
        /\ Len(data) = df.height * Len(df.columns)
        /\ \A r \in 0..(df.height - 1), c \in 0..(Len(df.columns) - 1) :
              data[r * Len(df.columns) + c + 1] =
                  extract_f32_value(df.columns[c + 1], r).value

C2_Witness ==
    /\ variant = "all"
    /\ engine_calls # <<>>
    /\ df.height = 2
    /\ Len(df.columns) = 2
    /\ df.columns[1].dtype = "Float64"
    /\ df.columns[2].dtype = "Float64"
    /\ data = <<RoundToF32(df.columns[1].values[1].val),
                RoundToF32(df.columns[2].values[1].val),
                RoundToF32(df.columns[1].values[2].val),
                RoundToF32(df.columns[2].values[2].val)>>
    /\ data[2] # data[3]

-----------------------------------------------------------------------------
(* C3 - named subset: the caller's order *)

\* C3: in the named-subset variant, the matrix handed to the engine has as
\* many columns as names were listed, and at offset r * cols + k (k from 0)
\* the coerced value at row r of the column named by the k-th name.
C3_CallerOrder ==
    (variant = "named" /\ Converted) =>
        /\ num_features = Len(columns)
        /\ num_rows = df.height
        /\ Len(data) = df.height * Len(columns)
        /\ \A r \in 0..(df.height - 1), k \in 1..Len(columns) :
              /\ HasColumn(df, columns[k])
              /\ data[r * Len(columns) + k] = CoercedCell(<<r, k>>)
        /\ \A i \in 1..Len(engine_calls) :
              /\ engine_calls[i].args.data = data
              /\ engine_calls[i].args.num_features = Len(columns)

C3_Witness ==
    /\ variant = "named"
    /\ columns = <<"B", "A">>
    /\ engine_calls # <<>>
    /\ df.height = 2
    /\ df.columns[1].name = "A"
    /\ df.columns[1].dtype = "Float64"
    /\ df.columns[2].dtype = "Boolean"
    /\ data = <<1, RoundToF32(df.columns[1].values[1].val),
                0, RoundToF32(df.columns[1].values[2].val)>>

-----------------------------------------------------------------------------
(* C4 - a null is an error, never a value *)

NullCells == {cell \in SelectedCells : IsNullCell(cell)}

\* the call selects at least one column of a table of at least one row,
\* every selected column has a supported dtype, and a selected cell is null
C4_Case ==
    /\ pc # "idle"
    /\ SelectionOk
    /\ df.height > 0
    /\ NumSelected > 0
    /\ \A k \in 1..NumSelected : ~IsUnsupportedColumn(k)
    /\ NullCells # {}

\* C4: in that case the conversion never succeeds and the engine is never
\* called; the call returns the error "Null value at index i", i the row of
\* the first null cell, which is neither the text of EmptyInput nor that of
\* UnsupportedType; and no value stands in the buffer for a null cell.
C4_NullRejected ==
    C4_Case =>
        /\ ~Converted
        /\ engine_calls = <<>>
        /\ Len(data) < RowMajorIndex(FirstCell(NullCells))
        /\ Returned =>
              /\ ~result.ok
              /\ result.value = <<>>
              /\ result.description.text = "Null value at index "
              /\ result.description.idx = <<FirstCell(NullCells)[1]>>
              /\ result.description.text # "DataFrame has zero rows or columns"
              /\ result.description.text # "Unsupported data type for conversion to f32: "

C4_Witness ==
    /\ C4_Case
    /\ Returned
    /\ Len(df.columns) = 2
    /\ NullCells = {<<1, 2>>}
    /\ result.description.idx = <<1>>
    /\ Len(visited) = 4

-----------------------------------------------------------------------------
(* C5 - empty input *)

\* the table handed to the conversion has no row or no column
C5_Case ==
    /\ pc # "idle"
    /\ SelectionOk
    /\ (df.height = 0 \/ NumSelected = 0)

\* C5: a table with zero rows or zero columns fails with EmptyInput whatever
\* the dtypes of its columns, before any cell is coerced.
C5_EmptyRejected ==
    C5_Case =>
        /\ visited = <<>>
        /\ engine_calls = <<>>
        /\ pc \in {"dense", "done"}
        /\ Returned =>
              /\ ~result.ok
              /\ result.description.text = "DataFrame has zero rows or columns"
              /\ result.description.idx = <<>>
              /\ result.description.shown = <<>>

C5_Witness ==
    /\ C5_Case
    /\ Returned
    /\ variant = "all"
    /\ df.height = 0
    /\ Len(df.columns) = 2
    /\ df.columns[2].dtype = "String"
    /\ result.description.text = "DataFrame has zero rows or columns"

-----------------------------------------------------------------------------
(* C6 - unsupported dtype *)

UnsupportedColumns == {k \in 1..NumSelected : IsUnsupportedColumn(k)}

\* the selection exists and holds a column of an unsupported dtype
C6_Case ==
    /\ pc # "idle"
    /\ SelectionOk
    /\ UnsupportedColumns # {}

\* C6 as claimed, on the tables of at least one row (C5 has the others fail
\* with EmptyInput): such a call fails with UnsupportedType naming the type
\* of an unsupported selected column, whatever the rows hold.
C6_AsClaimed ==
    (C6_Case /\ df.height > 0 /\ Returned) =>
        /\ ~result.ok
        /\ result.description.text = "Unsupported data type for conversion to f32: "
        /\ \E k \in UnsupportedColumns :
              result.description.shown = <<SelectedColumn(k).dtype>>

\* the first unsupported column, in column order
FirstUnsupported == CHOOSE k \in UnsupportedColumns : \A j \in UnsupportedColumns : k <= j

\* a column before the first unsupported one is null in row 0
NullBeforeUnsupported ==
    \E k \in 1..(FirstUnsupported - 1) : IsNullCell(<<0, k>>)

\* C6 as amended: with at least one row, such a call always fails and the
\* engine is never called; the error is UnsupportedType naming the type of
\* the first unsupported column, unless a column before it is null in row 0,
\* and then it is "Null value at index 0"; no cell after row 0, and no cell
\* of the unsupported column, changes the outcome.
C6_UnsupportedRejected ==
    (C6_Case /\ df.height > 0) =>
        /\ ~Converted
        /\ engine_calls = <<>>
        /\ Returned =>
              /\ ~result.ok
              /\ IF NullBeforeUnsupported
                 THEN /\ result.description.text = "Null value at index "
                      /\ result.description.idx = <<0>>
                 ELSE /\ result.description.text =
                            "Unsupported data type for conversion to f32: "
                      /\ result.description.shown = <<SelectedColumn(FirstUnsupported).dtype>>

C6_Witness ==
    /\ C6_Case
    /\ Returned
    /\ df.height = 2
    /\ NumSelected = 2
    /\ FirstUnsupported = 2
    /\ IsNullCell(<<1, 1>>)
    /\ IsNullCell(<<0, 2>>)
    /\ result.description.shown = <<"String">>

-----------------------------------------------------------------------------
(* C7 - a name that is not a column *)

C7_Case ==
    /\ variant = "named"
    /\ \E k \in 1..Len(columns) : ~HasColumn(df, columns[k])

\* C7: when a requested name is not a column of the table, the call has
\* returned "Failed to select columns: ..." without entering the conversion:
\* no cell was coerced, no buffer built, the engine not called.
C7_SelectionFails ==
    C7_Case =>
        /\ Returned
        /\ ~result.ok
        /\ result.value = <<>>
        /\ result.description.text = "Failed to select columns: "
        /\ visited = <<>>
        /\ data = <<>>
        /\ engine_calls = <<>>

C7_Witness ==
    /\ C7_Case
    /\ columns = <<"A", "C">>
    /\ Len(df.columns) = 2
    /\ df.height = 2
    /\ \A c \in 1..2 : df.columns[c].dtype = "Float64" /\ df.columns[c].values[1].some
    /\ result.description.shown = <<"not found", "C">>

-----------------------------------------------------------------------------
(* C9 - fail-fast, in iteration order *)

\* the conversion runs its loops: the selection exists and is not empty
C9_Loops ==
    /\ pc \notin {"idle", "dense"}
    /\ SelectionOk
    /\ df.height > 0
    /\ NumSelected > 0

\* C9: the cells are visited in row-outer, column-inner order; none is
\* visited after the first failing one; when a cell fails the conversion
\* does not succeed, and the call returns that first cell's error and no
\* buffer.
C9_FailFast ==
    C9_Loops =>
        /\ \A i \in 1..Len(visited) : visited[i] = RowMajorCell(i)
        /\ FailingCells # {} =>
              LET first == FirstCell(FailingCells)
              IN  /\ Len(visited) <= RowMajorIndex(first)
                  /\ ~Converted
                  /\ engine_calls = <<>>
                  /\ Returned =>
                        /\ Len(visited) = RowMajorIndex(first)
                        /\ ~result.ok
                        /\ result.value = <<>>
                        /\ result.description =
                              extract_f32_value(SelectedColumn(first[2]), first[1]).description

C9_Witness ==
    /\ C9_Loops
    /\ Returned
    /\ df.height = 2
    /\ NumSelected = 2
    /\ FailingCells = {<<0, 2>>, <<1, 1>>}
    /\ visited = <<<<0, 1>>, <<0, 2>>>>
    /\ result.description.idx = <<0>>

-----------------------------------------------------------------------------
(* C10 - one call of the engine, passed through *)

\* the conversion of the call's selection succeeds
ConversionSucceeds ==
    /\ SelectionOk
    /\ df.height > 0
    /\ NumSelected > 0
    /\ FailingCells = {}

\* C10: the engine is called at most once and only as the last step; once the
\* call has returned, the engine was called exactly when selection and
\* conversion succeeded, with the converted buffer, rows and cols and the
\* caller's option_mask and training, and the caller holds what the engine
\* returned; otherwise the caller holds an error that is not the engine's.
C10_OneShot ==
    /\ Len(engine_calls) <= 1
    /\ engine_calls # <<>> => Returned
    /\ Returned =>
          /\ (engine_calls # <<>>) = ConversionSucceeds
          /\ \A i \in 1..Len(engine_calls) :
                /\ engine_calls[i].args.data = data
                /\ Len(engine_calls[i].args.data) = df.height * NumSelected
                /\ engine_calls[i].args.num_rows = df.height
                /\ engine_calls[i].args.num_features = NumSelected
                /\ engine_calls[i].args.option_mask = option_mask
                /\ engine_calls[i].args.training = training
                /\ result = engine_calls[i].outcome
          /\ engine_calls = <<>> =>
                /\ ~result.ok
                /\ result.description.text \in
                      {"Failed to select columns: ",
                       "DataFrame has zero rows or columns",
                       "Null value at index ",
                       "Unsupported data type for conversion to f32: "}

C10_Witness ==
    /\ Returned
    /\ Len(engine_calls) = 1
    /\ option_mask = OUTPUT_MARGIN + PRED_CONTRIBS
    /\ training
    /\ engine_calls[1].args.option_mask = OUTPUT_MARGIN + PRED_CONTRIBS
    /\ engine_calls[1].args.training
    /\ ~engine_calls[1].outcome.ok
    /\ ~result.ok

-----------------------------------------------------------------------------
(* C8 - columns of unequal length *)

\* C8: when the columns handed to the conversion do not all have the length
\* of the table, the conversion returns an error before it visits any cell:
\* it reads no cell beyond a column's end, does not panic, and returns no
\* buffer that leaves out part of a column.
C8_MismatchRejected ==
    (pc \notin {"idle", "dense"} /\ ~EqualLengths(frame)) =>
        /\ visited = <<>>
        /\ pc \notin {"panic", "predict"}
        /\ engine_calls = <<>>
        /\ Returned => ~result.ok

====
